---- MODULE Spec2Model ----
\* Moving-average strategies (strategies.py), the runner (main.py) and the
\* benchmarking harness (profiler.py) of financial-signal-complexity.
EXTENDS Integers, Sequences, FiniteSets, TLC

\* ------------------------------------------------------------------ bounds
\* Ticks fed to the three strategies in the strategy specification.
MaxTicks == 4
\* Largest window_size tried (1..MaxWindow).
MaxWindow == 3
\* Significand width of the modelled binary float (53 in a Python float).
MantissaBits == 7

Symbols == {"X", "Y"}
\* Prices are whole numbers; 10, 20, 15, 30 are the scenario of spec section 8 and
\* 100 pushes a window's sum past 2^MantissaBits, where additions start to round.
Prices == {10, 15, 20, 30, 100}
\* The prices each symbol's ticks are drawn from.
PricesFor(sym) == IF sym = "X" THEN Prices ELSE {10, 100}
Windows == 1..MaxWindow

None == "None"

\* ------------------------------------------------- float arithmetic (price: float)
\* A float is held as a whole number of units of 2^-(MantissaBits-1), so every
\* value of magnitude >= 1 with MantissaBits significant bits is a whole number
\* of units. Each operation rounds its exact result to MantissaBits significant
\* bits, to nearest, ties to even, as IEEE-754 binary arithmetic does.
RECURSIVE Pow2(_)
Pow2(n) == IF n <= 0 THEN 1 ELSE 2 * Pow2(n - 1)

Scale == Pow2(MantissaBits - 1)

RECURSIVE BitLen(_)
BitLen(n) == IF n <= 0 THEN 0 ELSE 1 + BitLen(n \div 2)

Abs(x) == IF x < 0 THEN 0 - x ELSE x

Min(a, b) == IF a < b THEN a ELSE b

\* Spacing of the representable values around a magnitude of v units.
Quantum(v) == Pow2(BitLen(v) - MantissaBits)

\* num/den (num >= 0, den > 0, in units) rounded to a representable value.
RoundRat(num, den) ==
    LET q == Quantum(num \div den)
        d == den * q
        m == num \div d
        r == num - m * d
    IN  IF 2 * r < d THEN m * q
        ELSE IF 2 * r > d THEN (m + 1) * q
        ELSE IF m % 2 = 0 THEN m * q ELSE (m + 1) * q

FRound(x) == IF x < 0 THEN 0 - RoundRat(0 - x, 1) ELSE RoundRat(x, 1)

\* float(row["price"]) of a whole-number price.
ToFloat(p) == FRound(p * Scale)
FAdd(a, b) == FRound(a + b)
FSub(a, b) == FRound(a - b)
\* a / n for a float a and a length n >= 1.
FDiv(a, n) == IF a < 0 THEN 0 - RoundRat(0 - a, n) ELSE RoundRat(a, n)

\* sum(prices): left to right from 0, every partial sum rounded.
RECURSIVE FSum(_)
FSum(s) == IF s = <<>> THEN 0 ELSE FAdd(FSum(SubSeq(s, 1, Len(s) - 1)), s[Len(s)])

\* The sum of a sequence in exact arithmetic (no rounding).
RECURSIVE ExactSum(_)
ExactSum(s) == IF s = <<>> THEN 0 ELSE s[1] + ExactSum(Tail(s))

\* ------------------------------------------------------------- dictionaries
\* A dict is a function whose domain is the set of keys present.
EmptyDict == [x \in {} |-> None]
DictGet(d, key, default) == IF key \in DOMAIN d THEN d[key] ELSE default
DictSet(d, key, val) == [x \in (DOMAIN d) \cup {key} |-> IF x = key THEN val ELSE d[x]]

\* ------------------------------------------------------------------ records
MarketDataPoint(ts, sym, price) == [timestamp |-> ts, symbol |-> sym, price |-> ToFloat(price)]

Signal(tick, side, meta) ==
    [timestamp |-> tick.timestamp, symbol |-> tick.symbol, side |-> side,
     price |-> tick.price, meta |-> meta]

\* The result of one generate_signals call: the instance afterwards, the list
\* returned, and whether the call raised instead of returning.
Returned(self, out) == [self |-> self, out |-> out, raised |-> FALSE]
Raised(self) == [self |-> self, out |-> <<>>, raised |-> TRUE]

\* ------------------------------------------------ NaiveMovingAverageStrategy
NaiveMovingAverageStrategy == [kind |-> "naive", price_history |-> EmptyDict]

\* avg_price = sum(prices) / len(prices)
NaiveAverage(prices) == FDiv(FSum(prices), Len(prices))

CompareSide_Inverted(price, avg_price) ==
    IF price > avg_price THEN "SELL"
    ELSE IF price < avg_price THEN "BUY"
    ELSE None

CompareSide_BuyOnly(price, avg_price) == IF price > avg_price THEN "BUY" ELSE None

\* BUY above the average, SELL below it, nothing on a tie.
CompareSide(price, avg_price) ==
    IF price > avg_price THEN "BUY"
    ELSE IF price < avg_price THEN "SELL"
    ELSE None

NaiveGenerateSignals(self, tick) ==
    LET prices == Append(DictGet(self.price_history, tick.symbol, <<>>), tick.price)
        after == [self EXCEPT !.price_history = DictSet(@, tick.symbol, prices)]
        avg_price == NaiveAverage(prices)
        side == CompareSide(tick.price, avg_price)
    IN  IF side = None THEN Returned(after, <<>>)
        ELSE Returned(after, <<Signal(tick, side, [average |-> avg_price])>>)

\* --------------------------------------------- WindowedMovingAverageStrategy
\* raise ValueError("window_size must be positive"): no instance comes back.
ValueError == [kind |-> "ValueError"]

WindowedMovingAverageStrategy_NegativeOnly(window_size) ==
    IF window_size < 0 THEN ValueError
    ELSE [kind |-> "windowed", window_size |-> window_size,
          buffers |-> EmptyDict, running_sum |-> EmptyDict]

\* __init__: a non-positive window_size is refused.
WindowedMovingAverageStrategy(window_size) ==
    IF window_size <= 0 THEN ValueError
    ELSE [kind |-> "windowed", window_size |-> window_size,
          buffers |-> EmptyDict, running_sum |-> EmptyDict]

WindowedExceeds_OffByOne(buffer, window_size) == Len(buffer) > window_size + 1

\* if len(buffer) > self.window_size
WindowedExceeds(buffer, window_size) == Len(buffer) > window_size

WindowedUpdate_NoSubtract(self, tick) ==
    LET appended == Append(DictGet(self.buffers, tick.symbol, <<>>), tick.price)
        added == FAdd(DictGet(self.running_sum, tick.symbol, 0), tick.price)
        evict == WindowedExceeds(appended, self.window_size)
    IN  [self EXCEPT !.buffers = DictSet(@, tick.symbol,
                                         IF evict THEN Tail(appended) ELSE appended),
                     !.running_sum = DictSet(@, tick.symbol, added)]

WindowedUpdate_Resum(self, tick) ==
    LET appended == Append(DictGet(self.buffers, tick.symbol, <<>>), tick.price)
        evict == WindowedExceeds(appended, self.window_size)
        buffer == IF evict THEN Tail(appended) ELSE appended
    IN  [self EXCEPT !.buffers = DictSet(@, tick.symbol, buffer),
                     !.running_sum = DictSet(@, tick.symbol, FSum(buffer))]

\* Lines 48-58: append, add, evict the oldest when over the window, store the sum.
WindowedUpdate(self, tick) ==
    LET appended == Append(DictGet(self.buffers, tick.symbol, <<>>), tick.price)
        added == FAdd(DictGet(self.running_sum, tick.symbol, 0), tick.price)
        evict == WindowedExceeds(appended, self.window_size)
        buffer == IF evict THEN Tail(appended) ELSE appended
        current_sum == IF evict THEN FSub(added, Head(appended)) ELSE added
    IN  [self EXCEPT !.buffers = DictSet(@, tick.symbol, buffer),
                     !.running_sum = DictSet(@, tick.symbol, current_sum)]

\* The divisor of line 60 after the update of tick's symbol.
WindowedDivisor(after, sym) == Len(after.buffers[sym])

WindowedAverage_ByWindow(after, sym) == FDiv(after.running_sum[sym], after.window_size)

\* avg_price = current_sum / len(buffer)
WindowedAverage(after, sym) == FDiv(after.running_sum[sym], WindowedDivisor(after, sym))

WindowedGenerateSignals(self, tick) ==
    LET after == WindowedUpdate(self, tick)
    IN  IF WindowedDivisor(after, tick.symbol) = 0 THEN Raised(after)
        ELSE LET avg_price == WindowedAverage(after, tick.symbol)
                 side == CompareSide(tick.price, avg_price)
             IN  IF side = None THEN Returned(after, <<>>)
                 ELSE Returned(after, <<Signal(tick, side,
                          [average |-> avg_price, window |-> self.window_size])>>)

\* -------------------------------------------- OptimizedMovingAverageStrategy
\* __init__ stores window_size unchecked.
OptimizedMovingAverageStrategy(window_size) ==
    [kind |-> "optimized", window_size |-> window_size, buffers |-> EmptyDict,
     running_sums |-> EmptyDict, last_signal |-> EmptyDict]

\* if len(buf) > self._window_size
OptimizedExceeds(buf, window_size) == Len(buf) > window_size

\* Lines 93-103.
OptimizedUpdate(self, tick) ==
    LET appended == Append(DictGet(self.buffers, tick.symbol, <<>>), tick.price)
        added == FAdd(DictGet(self.running_sums, tick.symbol, 0), tick.price)
        evict == OptimizedExceeds(appended, self.window_size)
        buf == IF evict THEN Tail(appended) ELSE appended
        s == IF evict THEN FSub(added, Head(appended)) ELSE added
    IN  [self EXCEPT !.buffers = DictSet(@, tick.symbol, buf),
                     !.running_sums = DictSet(@, tick.symbol, s)]

OptimizedDivisor(after, sym) == Len(after.buffers[sym])

\* avg = s / len(buf)
OptimizedAverage(after, sym) == FDiv(after.running_sums[sym], OptimizedDivisor(after, sym))

InstantSide_TieBuy(price, avg) == IF price >= avg THEN "BUY" ELSE "SELL"

\* signal = "BUY" if tick.price > avg else "SELL"
InstantSide(price, avg) == IF price > avg THEN "BUY" ELSE "SELL"

OptimizedEmit_OneLastSide(after, sym, signal) ==
    IF signal # DictGet(after.last_signal, "*", None)
    THEN Returned([after EXCEPT !.last_signal = DictSet(@, "*", signal)], <<signal>>)
    ELSE Returned(after, <<>>)

OptimizedEmit_StaleLast(after, sym, signal) ==
    IF signal # DictGet(after.last_signal, sym, None)
    THEN Returned([after EXCEPT !.last_signal =
                       IF sym \in DOMAIN @ THEN @ ELSE DictSet(@, sym, signal)], <<signal>>)
    ELSE Returned(after, <<>>)

\* Lines 107-112: emit only when the side differs from the last one emitted.
OptimizedEmit(after, sym, signal) ==
    IF signal # DictGet(after.last_signal, sym, None)
    THEN Returned([after EXCEPT !.last_signal = DictSet(@, sym, signal)], <<signal>>)
    ELSE Returned(after, <<>>)

OptimizedGenerateSignals(self, tick) ==
    LET after == OptimizedUpdate(self, tick)
    IN  IF OptimizedDivisor(after, tick.symbol) = 0 THEN Raised(after)
        ELSE OptimizedEmit(after, tick.symbol,
                           InstantSide(tick.price, OptimizedAverage(after, tick.symbol)))

\* strategy.generate_signals(tick): dispatch on the instance's class.
GenerateSignals(self, tick) ==
    CASE self.kind = "naive" -> NaiveGenerateSignals(self, tick)
      [] self.kind = "windowed" -> WindowedGenerateSignals(self, tick)
      [] self.kind = "optimized" -> OptimizedGenerateSignals(self, tick)

\* ------------------------------------------------ the strategies side by side
\* One fresh instance of each class is fed the same ticks, one tick at a time,
\* as the loop of tests.py feeds its two instances.
VARIABLES
    window_size,   \* k, given to the windowed and the optimized constructor
    naive, windowed, optimized,   \* the three instances
    fed,           \* the ticks fed so far, in order
    n_outs, w_outs, o_outs,       \* per tick, the list each instance returned
    n_avgs, w_avgs, o_avgs        \* per tick, the average each instance computed

stratVars == <<window_size, naive, windowed, optimized, fed,
               n_outs, w_outs, o_outs, n_avgs, w_avgs, o_avgs>>

\* ------------------------------------------------- one strategy, one run
\* A constructor call and run_strategy's loop over a tick sequence, call by
\* call, and then the same on a second instance built by the same call.
VARIABLES
    ctor,            \* the constructor call: class and window_size argument
    run_ticks,       \* run_strategy's ticks argument
    strat,           \* the instance constructed, run_strategy's strategy argument
    tick_i,          \* position of "for tick in ticks"
    total_signals,   \* run_strategy's local
    calls,           \* the ticks generate_signals was called with, in call order
    sigs,            \* the list each of those calls returned
    run_pc,          \* where the session is
    run_result,      \* what run_strategy returned
    instance_no,     \* 1 for the first instance, 2 for the second
    first            \* the first instance's run, kept for comparison

runnerVars == <<ctor, run_ticks, strat, tick_i, total_signals, calls, sigs,
                run_pc, run_result, instance_no, first>>

\* No instance yet, and no run of a first instance yet.
NoStrategy == [kind |-> "none"]
NoFirstRun == [self |-> NoStrategy, sigs |-> <<>>, returned |-> <<>>]

\* total_signals = 0, the iterator at the first tick, nothing returned.
RunnerStart ==
    /\ tick_i = 1
    /\ total_signals = 0
    /\ calls = <<>> /\ sigs = <<>>
    /\ run_result = <<>>

\* run_strategy is not called.
RunnerIdle ==
    /\ ctor = [name |-> "naive", kind |-> "naive", window_size |-> 0]
    /\ run_ticks = <<>>
    /\ strat = NoStrategy
    /\ RunnerStart
    /\ run_pc = "idle"
    /\ instance_no = 1
    /\ first = NoFirstRun


\* ------------------------------------------------------------- the runner
\* run_strategy: feed the ticks in order, add up the lengths of the lists
\* returned; from tick i on, with total so far.
AddSignals_CountCalls(total, signals) == total + 1

\* total_signals += len(signals)
AddSignals(total, signals) == total + Len(signals)

RECURSIVE RunFrom(_, _, _, _)
RunFrom(self, ticks, i, total) ==
    IF i > Len(ticks)
    THEN [self |-> self, total_signals |-> total, raised |-> FALSE]
    ELSE LET r == GenerateSignals(self, ticks[i])
         IN  IF r.raised
             THEN [self |-> r.self, total_signals |-> total, raised |-> TRUE]
             ELSE RunFrom(r.self, ticks, i + 1, AddSignals(total, r.out))

RunStrategy(self, ticks) == RunFrom(self, ticks, 1, 0)

\* make_slices: (n, ticks[:min(n, len(ticks))]) for each n in sizes.
MakeSlices(ticks, sizes) ==
    [i \in 1..Len(sizes) |-> <<sizes[i], SubSeq(ticks, 1, Min(sizes[i], Len(ticks)))>>]

\* ------------------------------------------------------------ the harness
\* window_size of main's windowed and optimized factories (10 there).
FactoryWindow == 2

\* main's strategy_factories: a name and what the lambda constructs.
StrategyFactories ==
    << [name |-> "naive", kind |-> "naive", window_size |-> 0],
       [name |-> "windowed_k", kind |-> "windowed", window_size |-> FactoryWindow],
       [name |-> "optimized_k", kind |-> "optimized", window_size |-> FactoryWindow] >>

\* The instance a factory's constructor call builds; objects are the instances
\* alive (unused by the constructors of strategies.py).
Construct_SharedLastSignal(factory, objects) ==
    CASE factory.kind = "naive" -> NaiveMovingAverageStrategy
      [] factory.kind = "windowed" -> WindowedMovingAverageStrategy(factory.window_size)
      [] factory.kind = "optimized" ->
            LET others == {i \in 1..Len(objects) : objects[i].obj.kind = "optimized"}
                fresh == OptimizedMovingAverageStrategy(factory.window_size)
            IN  IF others = {} THEN fresh
                ELSE [fresh EXCEPT !.last_signal =
                        objects[CHOOSE i \in others : \A j \in others : j <= i].obj.last_signal]

Construct_SharedHistory(factory, objects) ==
    CASE factory.kind = "naive" ->
            LET others == {i \in 1..Len(objects) : objects[i].obj.kind = "naive"}
            IN  IF others = {} THEN NaiveMovingAverageStrategy
                ELSE objects[CHOOSE i \in others : \A j \in others : j <= i].obj
      [] factory.kind = "windowed" -> WindowedMovingAverageStrategy(factory.window_size)
      [] factory.kind = "optimized" -> OptimizedMovingAverageStrategy(factory.window_size)

Construct(factory, objects) ==
    CASE factory.kind = "naive" -> NaiveMovingAverageStrategy
      [] factory.kind = "windowed" -> WindowedMovingAverageStrategy(factory.window_size)
      [] factory.kind = "optimized" -> OptimizedMovingAverageStrategy(factory.window_size)

\* factory(): the heap afterwards and the reference returned. A heap cell
\* holds the instance, the number of ticks it has processed and the trial
\* whose call built it.
CallFactory_Cached(objects, factory, trial) ==
    LET same == {i \in 1..Len(objects) : objects[i].name = factory.name}
    IN  IF same # {} THEN [heap |-> objects, ref |-> CHOOSE i \in same : TRUE]
        ELSE [heap |-> Append(objects, [obj |-> Construct(factory, objects), processed |-> 0,
                                        born |-> trial, name |-> factory.name]),
              ref |-> Len(objects) + 1]

CallFactory(objects, factory, trial) ==
    [heap |-> Append(objects, [obj |-> Construct(factory, objects), processed |-> 0,
                               born |-> trial, name |-> factory.name]),
     ref |-> Len(objects) + 1]

\* ProfileRow(...); peak_mib is an Optional[float], cprofile_top a text or None.
ProfileRow(strategy, n_ticks, seconds, signals, peak_mib, cprofile_top) ==
    [strategy |-> strategy, n_ticks |-> n_ticks, seconds |-> seconds,
     signals |-> signals, peak_mib |-> peak_mib, cprofile_top |-> cprofile_top]

\* The text pstats prints.
PstatsText == "tottime"

RECURSIVE MaxOf(_)
MaxOf(series) ==
    IF Len(series) = 1 THEN series[1]
    ELSE LET m == MaxOf(Tail(series)) IN IF series[1] > m THEN series[1] ELSE m

\* An Optional[float] reading: <<>> is None, <<x>> is the reading x.
NoReading == <<>>
Reading(x) == <<x>>

\* peak = max(mem_series) if mem_series else None
Peak(mem_series) == IF mem_series = <<>> THEN NoReading ELSE Reading(MaxOf(mem_series))

\* Lines 101-108: the row rebuilt after _run_with_memory returned peak.
MemoryRow_SignalsFromMemory(row, signals, peak) ==
    ProfileRow(row.strategy, row.n_ticks, row.seconds, signals, peak, row.cprofile_top)

MemoryRow(row, signals, peak) ==
    ProfileRow(row.strategy, row.n_ticks, row.seconds, row.signals, peak, row.cprofile_top)

\* What time.perf_counter differences and memory_usage samples may read.
Seconds == {1, 2}
MemSeries == {<<40, 42>>}

\* The loaded tick sequences tried, as (symbol, price) pairs.
LoadedStreams ==
    { << <<"X", 10>>, <<"X", 20>>, <<"X", 15>>, <<"X", 30>> >>,
      << <<"X", 10>>, <<"Y", 20>>, <<"X", 20>>, <<"Y", 10>> >> }

Load(stream) == [i \in 1..Len(stream) |-> MarketDataPoint(i, stream[i][1], stream[i][2])]

\* The sizes lists tried: prefixes shorter than the data, and sizes at and
\* past its end (as main's 1000, 10000, 100000 are for a short file).
SizeLists == { <<2, 3>>, <<4, 5>> }

VARIABLES
    all_ticks,           \* load_market_data's result
    sizes, slices,       \* make_slices' argument and result
    strategy_factories, do_cprofile, do_memory,   \* profile_runtime_memory's arguments
    memory_profiler,     \* whether "from memory_profiler import memory_usage" succeeds
    pc,                  \* where profile_runtime_memory is
    si, fi,              \* positions of the two loops
    heap,                \* the strategy instances constructed so far
    strat_fresh, strat_mem, row, rows,   \* profile_runtime_memory's locals
    returned,            \* the list it returned
    runs                 \* every call of the runner so far

harnessVars == <<all_ticks, sizes, slices, strategy_factories, do_cprofile, do_memory,
                 memory_profiler, pc, si, fi, heap, strat_fresh, strat_mem, row, rows,
                 returned, runs>>

vars == <<stratVars, harnessVars, runnerVars>>

\* The number of the trial the loops are at, counted from 1.
Trial == (si - 1) * Len(strategy_factories) + fi

\* The start of the loops, or past their end.
LoopStart == IF Len(slices) >= 1 /\ Len(strategy_factories) >= 1 THEN "factory" ELSE "return"

HarnessInputs ==
    /\ all_ticks \in {Load(stream) : stream \in LoadedStreams}
    /\ sizes \in SizeLists
    /\ slices = MakeSlices(all_ticks, sizes)
    /\ strategy_factories = StrategyFactories
    /\ do_cprofile \in BOOLEAN
    /\ do_memory \in BOOLEAN
    /\ memory_profiler \in BOOLEAN

HarnessStart ==
    /\ si = 1 /\ fi = 1
    /\ heap = <<>>
    /\ strat_fresh = None /\ strat_mem = None /\ row = None
    /\ rows = <<>>
    /\ returned = None
    /\ runs = <<>>

HarnessInit == HarnessInputs /\ HarnessStart /\ pc = LoopStart

\* The harness is not called.
HarnessIdle ==
    /\ all_ticks = <<>> /\ sizes = <<>> /\ slices = <<>>
    /\ strategy_factories = <<>>
    /\ do_cprofile = FALSE /\ do_memory = FALSE /\ memory_profiler = FALSE
    /\ HarnessStart /\ pc = "idle"

\* One call of the runner on the instance at ref, as the log keeps it.
RunRecord(how, ref, result, seconds) ==
    [trial |-> Trial, how |-> how, ref |-> ref, processed_before |-> heap[ref].processed,
     signals |-> result.total_signals, seconds |-> seconds]

\* The heap after the instance at ref has run over ticks.
AfterRun(objects, ref, result, ticks) ==
    [objects EXCEPT ![ref] = [@ EXCEPT !.obj = result.self,
                                       !.processed = @ + Len(ticks)]]

\* strat_fresh = factory()
NewStrategy ==
    /\ pc = "factory"
    /\ \E c \in {CallFactory(heap, strategy_factories[fi], Trial)} :
          /\ heap' = c.heap
          /\ strat_fresh' = c.ref
    /\ pc' = "run"
    /\ UNCHANGED <<all_ticks, sizes, slices, strategy_factories, do_cprofile, do_memory,
                   memory_profiler, si, fi, strat_mem, row, rows, returned, runs, stratVars, runnerVars>>

\* The first run of the trial, on strat_fresh: how is "cprofile"
\* (_run_with_cprofile, lines 91-93) or "timer" (_run_with_timer, lines 95-96).
FirstRun(how, seconds, top) ==
    /\ pc = "run"
    /\ \E result \in {RunStrategy(heap[strat_fresh].obj, slices[si][2])} :
          /\ ~result.raised
          /\ heap' = AfterRun(heap, strat_fresh, result, slices[si][2])
          /\ runs' = Append(runs, RunRecord(how, strat_fresh, result, seconds))
          /\ row' = ProfileRow(strategy_factories[fi].name, slices[si][1], seconds,
                               result.total_signals, NoReading, top)
    /\ pc' = IF do_memory THEN "memory_factory" ELSE "append"
    /\ UNCHANGED <<all_ticks, sizes, slices, strategy_factories, do_cprofile, do_memory,
                   memory_profiler, si, fi, strat_fresh, strat_mem, rows, returned, stratVars, runnerVars>>

RunWithCprofile(seconds) == do_cprofile /\ FirstRun("cprofile", seconds, PstatsText)

RunWithTimer(seconds) == ~do_cprofile /\ FirstRun("timer", seconds, None)

\* strat_mem = factory()
NewMemoryStrategy ==
    /\ pc = "memory_factory"
    /\ \E c \in {CallFactory(heap, strategy_factories[fi], Trial)} :
          /\ heap' = c.heap
          /\ strat_mem' = c.ref
    /\ pc' = "memory_run"
    /\ UNCHANGED <<all_ticks, sizes, slices, strategy_factories, do_cprofile, do_memory,
                   memory_profiler, si, fi, strat_fresh, row, rows, returned, runs, stratVars, runnerVars>>

RunWithMemoryUnavailable_ZeroPeak ==
    /\ pc = "memory_run"
    /\ ~memory_profiler
    /\ \E result \in {RunStrategy(heap[strat_mem].obj, slices[si][2])} :
          /\ ~result.raised
          /\ heap' = AfterRun(heap, strat_mem, result, slices[si][2])
          /\ runs' = Append(runs, RunRecord("memory_timer", strat_mem, result, None))
          /\ row' = MemoryRow(row, result.total_signals, Reading(0))
    /\ pc' = "append"
    /\ UNCHANGED <<all_ticks, sizes, slices, strategy_factories, do_cprofile, do_memory,
                   memory_profiler, si, fi, strat_fresh, strat_mem, rows, returned, stratVars, runnerVars>>

\* _run_with_memory when the import fails: one timed run, peak None. The
\* seconds it returns are dropped by the caller ("_, _, peak = ...").
RunWithMemoryUnavailable ==
    /\ pc = "memory_run"
    /\ ~memory_profiler
    /\ \E result \in {RunStrategy(heap[strat_mem].obj, slices[si][2])} :
          /\ ~result.raised
          /\ heap' = AfterRun(heap, strat_mem, result, slices[si][2])
          /\ runs' = Append(runs, RunRecord("memory_timer", strat_mem, result, None))
          /\ row' = MemoryRow(row, result.total_signals, NoReading)
    /\ pc' = "append"
    /\ UNCHANGED <<all_ticks, sizes, slices, strategy_factories, do_cprofile, do_memory,
                   memory_profiler, si, fi, strat_fresh, strat_mem, rows, returned, stratVars, runnerVars>>

\* _run_with_memory with memory_profiler: the sampled run, then the runner
\* again on the same instance for the signal count.
RunWithMemorySampled(mem_series) ==
    /\ pc = "memory_run"
    /\ memory_profiler
    /\ \E sampled \in {RunStrategy(heap[strat_mem].obj, slices[si][2])} :
       \E again \in {RunStrategy(sampled.self, slices[si][2])} :
          /\ ~sampled.raised /\ ~again.raised
          /\ heap' = AfterRun(AfterRun(heap, strat_mem, sampled, slices[si][2]),
                              strat_mem, again, slices[si][2])
          /\ runs' = runs \o
                << RunRecord("memory_sampled", strat_mem, sampled, None),
                   [RunRecord("memory_rerun", strat_mem, again, None) EXCEPT
                       !.processed_before = @ + Len(slices[si][2])] >>
          /\ row' = MemoryRow(row, again.total_signals, Peak(mem_series))
    /\ pc' = "append"
    /\ UNCHANGED <<all_ticks, sizes, slices, strategy_factories, do_cprofile, do_memory,
                   memory_profiler, si, fi, strat_fresh, strat_mem, rows, returned, stratVars, runnerVars>>

AppendRow_FactoriesOuter ==
    /\ pc = "append"
    /\ rows' = Append(rows, row)
    /\ IF si < Len(slices)
       THEN si' = si + 1 /\ fi' = fi /\ pc' = "factory"
       ELSE IF fi < Len(strategy_factories)
            THEN si' = 1 /\ fi' = fi + 1 /\ pc' = "factory"
            ELSE fi' = fi /\ si' = si /\ pc' = "return"
    /\ UNCHANGED <<all_ticks, sizes, slices, strategy_factories, do_cprofile, do_memory,
                   memory_profiler, heap, strat_fresh, strat_mem, row, returned, runs, stratVars, runnerVars>>

\* rows.append(row), and the loops move on.
AppendRow ==
    /\ pc = "append"
    /\ rows' = Append(rows, row)
    /\ IF fi < Len(strategy_factories)
       THEN fi' = fi + 1 /\ si' = si /\ pc' = "factory"
       ELSE IF si < Len(slices)
            THEN fi' = 1 /\ si' = si + 1 /\ pc' = "factory"
            ELSE fi' = fi /\ si' = si /\ pc' = "return"
    /\ UNCHANGED <<all_ticks, sizes, slices, strategy_factories, do_cprofile, do_memory,
                   memory_profiler, heap, strat_fresh, strat_mem, row, returned, runs, stratVars, runnerVars>>

\* return [asdict(r) for r in rows]
ReturnRows ==
    /\ pc = "return"
    /\ returned' = rows
    /\ pc' = "done"
    /\ UNCHANGED <<all_ticks, sizes, slices, strategy_factories, do_cprofile, do_memory,
                   memory_profiler, si, fi, heap, strat_fresh, strat_mem, row, rows, runs, stratVars, runnerVars>>

HarnessNext ==
    \/ NewStrategy
    \/ \E seconds \in Seconds : RunWithCprofile(seconds)
    \/ \E seconds \in Seconds : RunWithTimer(seconds)
    \/ NewMemoryStrategy
    \/ RunWithMemoryUnavailable
    \/ \E mem_series \in MemSeries : RunWithMemorySampled(mem_series)
    \/ AppendRow
    \/ ReturnRows

\* The strategies are not fed while the harness runs.
StratIdle ==
    /\ window_size = 1
    /\ naive = NaiveMovingAverageStrategy
    /\ windowed = WindowedMovingAverageStrategy(window_size)
    /\ optimized = OptimizedMovingAverageStrategy(window_size)
    /\ fed = <<>>
    /\ n_outs = <<>> /\ w_outs = <<>> /\ o_outs = <<>>
    /\ n_avgs = <<>> /\ w_avgs = <<>> /\ o_avgs = <<>>

StratInit ==
    /\ window_size \in Windows
    /\ naive = NaiveMovingAverageStrategy
    /\ windowed = WindowedMovingAverageStrategy(window_size)
    /\ optimized = OptimizedMovingAverageStrategy(window_size)
    /\ fed = <<>>
    /\ n_outs = <<>> /\ w_outs = <<>> /\ o_outs = <<>>
    /\ n_avgs = <<>> /\ w_avgs = <<>> /\ o_avgs = <<>>

\* The body of the loop: the next tick goes to each instance in turn.
Feed(sym, price) ==
    /\ Len(fed) < MaxTicks
    /\ \E tick \in {MarketDataPoint(Len(fed) + 1, sym, price)} :
       \E n \in {NaiveGenerateSignals(naive, tick)},
          w \in {WindowedGenerateSignals(windowed, tick)},
          o \in {OptimizedGenerateSignals(optimized, tick)} :
           /\ ~n.raised /\ ~w.raised /\ ~o.raised
           /\ fed' = Append(fed, tick)
           /\ naive' = n.self
           /\ windowed' = w.self
           /\ optimized' = o.self
           /\ n_outs' = Append(n_outs, n.out)
           /\ w_outs' = Append(w_outs, w.out)
           /\ o_outs' = Append(o_outs, o.out)
           /\ n_avgs' = Append(n_avgs, NaiveAverage(n.self.price_history[sym]))
           /\ w_avgs' = Append(w_avgs, WindowedAverage(w.self, sym))
           /\ o_avgs' = Append(o_avgs, OptimizedAverage(o.self, sym))
    /\ UNCHANGED <<window_size, harnessVars, runnerVars>>

Init == StratInit /\ HarnessIdle /\ RunnerIdle

Next == \E sym \in Symbols : \E price \in PricesFor(sym) : Feed(sym, price)

Spec == Init /\ [][Next]_vars

\* profile_runtime_memory called on main's factories and make_slices' slices.
HarnessSpecInit == StratIdle /\ HarnessInit /\ RunnerIdle

HarnessSpec == HarnessSpecInit /\ [][HarnessNext]_vars

\* ------------------------------------------------------ run_strategy, stepwise
\* Longest tick sequence given to run_strategy.
MaxRunLen == 3

\* The window_size arguments tried, those a constructor refuses included.
WindowArgs == (0 - 1)..MaxWindow

\* The constructor calls tried: each class, each window_size argument.
Constructors ==
    {[name |-> "naive", kind |-> "naive", window_size |-> 0]}
    \cup {[name |-> "windowed_k", kind |-> "windowed", window_size |-> k] : k \in WindowArgs}
    \cup {[name |-> "optimized_k", kind |-> "optimized", window_size |-> k] : k \in WindowArgs}

\* The ticks a sequence is made of: 101 and 102 are neighbours whose sum rounds.
RunTicks == {<<"X", 10>>, <<"X", 20>>, <<"X", 101>>, <<"X", 102>>, <<"Y", 20>>}

\* Every sequence of up to MaxRunLen of them, the empty one included.
TickSequences == UNION {[1..n -> RunTicks] : n \in 0..MaxRunLen}

RunnerInit ==
    /\ ctor \in Constructors
    /\ run_ticks \in {Load(stream) : stream \in TickSequences}
    /\ strat = NoStrategy
    /\ RunnerStart
    /\ run_pc = "construct"
    /\ instance_no = 1
    /\ first = NoFirstRun

\* strat = Class(window_size=k): the instance, or the constructor raises.
ConstructStrategy ==
    /\ run_pc = "construct"
    /\ \E s \in {Construct(ctor, <<>>)} :
          IF s = ValueError
          THEN run_pc' = "rejected" /\ strat' = strat
          ELSE run_pc' = "loop" /\ strat' = s
    /\ UNCHANGED <<ctor, run_ticks, tick_i, total_signals, calls, sigs, run_result,
                   instance_no, first, stratVars, harnessVars>>

\* One pass of "for tick in ticks": the call, then total_signals += len(signals).
\* An exception of the call leaves the loop and run_strategy.
GenerateSignalsCall ==
    /\ run_pc = "loop"
    /\ tick_i <= Len(run_ticks)
    /\ \E r \in {GenerateSignals(strat, run_ticks[tick_i])} :
          /\ calls' = Append(calls, run_ticks[tick_i])
          /\ strat' = r.self
          /\ IF r.raised
             THEN run_pc' = "raised" /\ UNCHANGED <<tick_i, total_signals, sigs>>
             ELSE /\ sigs' = Append(sigs, r.out)
                  /\ total_signals' = AddSignals(total_signals, r.out)
                  /\ tick_i' = tick_i + 1
                  /\ run_pc' = run_pc
    /\ UNCHANGED <<ctor, run_ticks, run_result, instance_no, first, stratVars, harnessVars>>

\* return total_signals, once the iterator is exhausted.
ReturnTotal ==
    /\ run_pc = "loop"
    /\ tick_i > Len(run_ticks)
    /\ run_result' = <<total_signals>>
    /\ run_pc' = "done"
    /\ UNCHANGED <<ctor, run_ticks, strat, tick_i, total_signals, calls, sigs,
                   instance_no, first, stratVars, harnessVars>>

\* The same constructor call again, the first instance still alive, and
\* run_strategy on the new instance over the same ticks.
ConstructSecond ==
    /\ run_pc = "done"
    /\ instance_no = 1
    /\ first' = [self |-> strat, sigs |-> sigs, returned |-> run_result]
    /\ instance_no' = 2
    /\ strat' = Construct(ctor, << [obj |-> strat, processed |-> Len(calls),
                                    born |-> instance_no, name |-> ctor.name] >>)
    /\ tick_i' = 1 /\ total_signals' = 0
    /\ calls' = <<>> /\ sigs' = <<>>
    /\ run_result' = <<>>
    /\ run_pc' = "loop"
    /\ UNCHANGED <<ctor, run_ticks, stratVars, harnessVars>>

RunnerNext ==
    \/ ConstructStrategy
    \/ GenerateSignalsCall
    \/ ReturnTotal
    \/ ConstructSecond

RunnerSpecInit == StratIdle /\ HarnessIdle /\ RunnerInit

RunnerSpec == RunnerSpecInit /\ [][RunnerNext]_vars

\* ------------------------------------------------------ reading the history
\* The prices of sym among the first n ticks fed, in arrival order.
PricesOf(sym, n) ==
    LET of == SelectSeq(SubSeq(fed, 1, n), LAMBDA t : t.symbol = sym)
    IN  [i \in 1..Len(of) |-> of[i].price]

SeenSymbols == {fed[i].symbol : i \in 1..Len(fed)}

LastN(s, n) == SubSeq(s, Len(s) - n + 1, Len(s))

\* ------------------------------------------------------------------- C1
\* C1: after every generate_signals call of the windowed and of the optimized
\* strategy (window_size k >= 1), every per-symbol buffer holds between 1 and k
\* prices, exactly the most recent min(k, ticks seen for the symbol) prices of
\* that symbol in arrival order, whatever the interleaving of symbols.
BufferIsRecentWindow(buffers) ==
    /\ DOMAIN buffers = SeenSymbols
    /\ \A sym \in DOMAIN buffers :
          LET ps == PricesOf(sym, Len(fed))
          IN  /\ Len(buffers[sym]) >= 1
              /\ Len(buffers[sym]) <= window_size
              /\ buffers[sym] = LastN(ps, Min(window_size, Len(ps)))

C1_BufferIsRecentWindow ==
    /\ BufferIsRecentWindow(windowed.buffers)
    /\ BufferIsRecentWindow(optimized.buffers)

\* A symbol has had more ticks than the window holds, between ticks of the
\* other symbol, so an eviction has happened in both instances.
C1_Witness ==
    /\ window_size >= 2
    /\ SeenSymbols = Symbols
    /\ \E sym \in Symbols :
          /\ Len(PricesOf(sym, Len(fed))) > window_size
          /\ Len(windowed.buffers[sym]) = window_size
          /\ Len(optimized.buffers[sym]) = window_size
          /\ fed[1].symbol = sym /\ fed[2].symbol # sym

\* ------------------------------------------------------------------- C2
\* A value that float arithmetic holds without rounding.
Representable(x) == FRound(x) = x

SumsAreExact(buffers, sums) ==
    /\ DOMAIN sums = SeenSymbols
    /\ \A sym \in DOMAIN sums : sums[sym] = ExactSum(buffers[sym])

\* C2 as claimed: after every generate_signals call of the windowed and of the
\* optimized strategy, the stored running sum of every symbol seen equals the
\* exact sum of the prices in that symbol's buffer.
C2_RunningSumIsExactSum ==
    /\ SumsAreExact(windowed.buffers, windowed.running_sum)
    /\ SumsAreExact(optimized.buffers, optimized.running_sums)

\* Every sum of up to window_size + 1 consecutive prices of sym is a float: the
\* additions and subtractions made for sym so far have not rounded.
WindowSumsRepresentable(sym) ==
    LET ps == PricesOf(sym, Len(fed))
    IN  \A i \in 1..Len(ps) : \A j \in i..Min(Len(ps), i + window_size) :
            Representable(ExactSum(SubSeq(ps, i, j)))

SumsAreExactWhenRepresentable(buffers, sums) ==
    /\ DOMAIN sums = SeenSymbols
    /\ \A sym \in DOMAIN sums :
          WindowSumsRepresentable(sym) => sums[sym] = ExactSum(buffers[sym])

\* C2 amended: the running sum of a symbol equals the exact sum of its buffer
\* whenever every sum of up to k + 1 consecutive prices of that symbol is
\* exactly representable as a float (no update has rounded).
C2_RunningSumExactWhenRepresentable ==
    /\ SumsAreExactWhenRepresentable(windowed.buffers, windowed.running_sum)
    /\ SumsAreExactWhenRepresentable(optimized.buffers, optimized.running_sums)

\* Both symbols seen, one of them past its window (a price was subtracted),
\* with sums that do not round.
C2_Witness ==
    /\ SeenSymbols = Symbols
    /\ \E sym \in Symbols :
          /\ Len(PricesOf(sym, Len(fed))) > window_size
          /\ WindowSumsRepresentable(sym)
          /\ windowed.running_sum[sym] = ExactSum(windowed.buffers[sym])
          /\ windowed.running_sum[sym] # ExactSum(PricesOf(sym, Len(fed)))

\* ------------------------------------------------------------------- C3
\* What run_strategy returns for the lists an instance returned: the sum of
\* their lengths.
RECURSIVE TotalSignals(_)
TotalSignals(outs) == IF outs = <<>> THEN 0 ELSE Len(Head(outs)) + TotalSignals(Tail(outs))

\* C3 as claimed: fed the same ticks, the optimized strategy emits at most as
\* many signals in total as the windowed strategy with the same window size.
C3_OptimizedAtMostWindowed == TotalSignals(o_outs) <= TotalSignals(w_outs)

\* The ticks whose price is neither above nor below the window average and on
\* which the optimized strategy emitted its tie side, SELL.
TieSells ==
    {i \in 1..Len(fed) : /\ ~(fed[i].price > w_avgs[i])
                         /\ ~(fed[i].price < w_avgs[i])
                         /\ o_outs[i] = <<"SELL">>}

\* C3 amended: the optimized total is at most the windowed total plus the
\* number of tie ticks on which the optimized strategy emitted SELL.
C3_OptimizedAtMostWindowedPlusTies ==
    TotalSignals(o_outs) <= TotalSignals(w_outs) + Cardinality(TieSells)

\* The optimized strategy has emitted more than the windowed one, which has
\* emitted too, over ticks of both symbols.
C3_Witness ==
    /\ SeenSymbols = Symbols
    /\ TotalSignals(w_outs) >= 2
    /\ TotalSignals(o_outs) > TotalSignals(w_outs)
    /\ Cardinality(TieSells) >= 2
    /\ TotalSignals(o_outs) = TotalSignals(w_outs) + Cardinality(TieSells)

\* ------------------------------------------------------------------- C8
\* The side of the signal in a returned list, None for the empty list; the
\* optimized strategy returns the side itself, the other two a Signal.
SideOf(out) == IF out = <<>> THEN None ELSE out[1].side
OptimizedSideOf(out) == IF out = <<>> THEN None ELSE out[1]

\* The ticks before tick i on which the optimized strategy emitted for sym.
EmittedBefore(i, sym) ==
    {j \in 1..(i - 1) : fed[j].symbol = sym /\ o_outs[j] # <<>>}

\* The side the optimized strategy last emitted for sym before tick i.
LastEmittedBefore(i, sym) ==
    LET js == EmittedBefore(i, sym)
    IN  IF js = {} THEN None
        ELSE o_outs[CHOOSE j \in js : \A h \in js : h <= j][1]

\* C8: on each tick the optimized strategy computes the instantaneous side
\* (BUY if price > window average, otherwise SELL, a tie included) and emits
\* exactly one signal, that side, if and only if it differs from the last
\* side emitted for the same symbol; the last side is updated only then; so
\* two consecutive signals for one symbol never have the same side, whatever
\* ticks of other symbols come in between.
C8_EdgeTriggered ==
    /\ \A i \in 1..Len(fed) :
          LET side == IF fed[i].price > o_avgs[i] THEN "BUY" ELSE "SELL"
          IN  o_outs[i] = IF side # LastEmittedBefore(i, fed[i].symbol)
                          THEN <<side>> ELSE <<>>
    /\ \A sym \in Symbols :
          DictGet(optimized.last_signal, sym, None) = LastEmittedBefore(Len(fed) + 1, sym)
    /\ \A i \in 1..Len(fed) :
          o_outs[i] # <<>> => o_outs[i][1] # LastEmittedBefore(i, fed[i].symbol)

\* For one symbol: a SELL, then a tie that is SELL again and is suppressed,
\* after a tick of the other symbol, then an edge to BUY.
C8_Witness ==
    \E sym \in Symbols : \E i, j, h \in 1..Len(fed) :
        /\ i < j /\ j < h
        /\ fed[i].symbol = sym /\ fed[j].symbol = sym /\ fed[h].symbol = sym
        /\ o_outs[i] = <<"SELL">>
        /\ o_outs[j] = <<>> /\ fed[j].price = o_avgs[j]
        /\ o_outs[h] = <<"BUY">>
        /\ \E g \in i..j : fed[g].symbol # sym

\* ------------------------------------------------------------------- C9
\* Section 8's scenario: prices 10, 20, 15, 30 of symbol "X", window size 3.
ScenarioPrices == <<10, 20, 15, 30>>

\* The ticks fed so far are the first ticks of the scenario.
InScenario ==
    /\ window_size = 3
    /\ Len(fed) <= Len(ScenarioPrices)
    /\ \A i \in 1..Len(fed) :
          fed[i].symbol = "X" /\ fed[i].price = ToFloat(ScenarioPrices[i])

ScenarioOutputs(windowedSides, optimizedSides) ==
    InScenario =>
       /\ \A i \in 1..Len(fed) :
             /\ SideOf(w_outs[i]) = windowedSides[i]
             /\ OptimizedSideOf(o_outs[i]) = optimizedSides[i]
       /\ Len(fed) = Len(ScenarioPrices) =>
             /\ windowed.buffers["X"] = <<ToFloat(20), ToFloat(15), ToFloat(30)>>
             /\ optimized.buffers["X"] = <<ToFloat(20), ToFloat(15), ToFloat(30)>>

\* C9 as claimed: tick 1 no signal, tick 2 BUY, tick 3 no signal (windowed) /
\* SELL (optimized), tick 4 BUY with buffer [20, 15, 30]; ticks 1, 2 and 4 the
\* same for both strategies.
C9_ScenarioAsClaimed ==
    ScenarioOutputs(<<None, "BUY", None, "BUY">>, <<None, "BUY", "SELL", "BUY">>)

\* C9 amended: on tick 1 the windowed strategy emits nothing and the optimized
\* strategy emits SELL (its tie rule, no side emitted before); ticks 2, 3, 4
\* as claimed.
C9_ScenarioAmended ==
    ScenarioOutputs(<<None, "BUY", None, "BUY">>, <<"SELL", "BUY", "SELL", "BUY">>)

\* The whole scenario has been fed.
C9_Witness == InScenario /\ Len(fed) = Len(ScenarioPrices)

\* ------------------------------------------------------------------ C10
\* How many of the first i ticks are of sym.
SeenUpTo(i, sym) == Cardinality({j \in 1..i : fed[j].symbol = sym})

SameOutcome(i) ==
    /\ n_avgs[i] = w_avgs[i]
    /\ SideOf(n_outs[i]) = SideOf(w_outs[i])
    /\ n_outs[i] # <<>> => n_outs[i][1].meta.average = w_outs[i][1].meta.average

FactoryOf(t) == ((t - 1) % Len(strategy_factories)) + 1
SliceOf(t) == ((t - 1) \div Len(strategy_factories)) + 1

FirstRuns == {i \in 1..Len(runs) : runs[i].how \in {"timer", "cprofile"}}

\* C4: in profile_runtime_memory no instance is shared between two trials:
\* every run is on an instance built by a factory call of its own trial, and
\* the run that supplies a row's seconds and signals is on an instance that has
\* processed no tick, whatever trials ran before.
C4_FreshInstancePerTrial ==
    /\ \A i \in 1..Len(runs) : heap[runs[i].ref].born = runs[i].trial
    /\ \A i, j \in 1..Len(runs) :
          runs[i].trial # runs[j].trial => runs[i].ref # runs[j].ref
    /\ \A i \in FirstRuns : runs[i].processed_before = 0
    /\ \A t \in 1..Len(rows) : \E i \in FirstRuns :
          /\ runs[i].trial = t
          /\ rows[t].signals = runs[i].signals
          /\ rows[t].seconds = runs[i].seconds

\* All trials are done, and instances of earlier trials had processed ticks
\* when a later trial of the same factory built its own.
C4_Witness ==
    /\ pc = "done"
    /\ Len(rows) = Len(slices) * Len(strategy_factories)
    /\ \E a, b \in 1..Len(heap) :
          /\ heap[a].name = heap[b].name
          /\ heap[a].born < heap[b].born
          /\ heap[a].processed > 0 /\ heap[b].processed > 0

\* ------------------------------------------------------------------- C5
\* C5 as claimed: with do_cprofile, each row's seconds and signals come from a
\* run under wall-clock timing only, and the profiled run is a separate,
\* additional run of the trial.
C5_TimedRunBesideProfiledRun ==
    do_cprofile =>
       \A t \in 1..Len(rows) :
          \E i, j \in 1..Len(runs) :
             /\ i # j
             /\ runs[i].trial = t /\ runs[i].how = "timer"
             /\ runs[j].trial = t /\ runs[j].how = "cprofile"
             /\ rows[t].seconds = runs[i].seconds
             /\ rows[t].signals = runs[i].signals

\* ------------------------------------------------------------------- C6
\* C6: the memory step runs an instance of its own and changes only peak_mib:
\* strategy, n_ticks, seconds, signals and cprofile_top of the row stay what
\* the first run recorded (what the trial records without do_memory), and that
\* row is the one appended.
C6_MemoryStepChangesOnlyPeak ==
    [][ /\ pc = "memory_run" =>
             /\ strat_mem # strat_fresh
             /\ row'.strategy = row.strategy
             /\ row'.n_ticks = row.n_ticks
             /\ row'.seconds = row.seconds
             /\ row'.signals = row.signals
             /\ row'.cprofile_top = row.cprofile_top
        /\ pc = "run" => row'.peak_mib = NoReading
        /\ pc = "append" => rows' = Append(rows, row) ]_vars

\* The memory step has set a peak, and the count of its re-run differs from
\* the signals the row keeps.
C6_Witness ==
    /\ pc = "append"
    /\ row.peak_mib # NoReading
    /\ \E i \in 1..Len(runs) :
          /\ runs[i].trial = Trial
          /\ runs[i].how = "memory_rerun"
          /\ runs[i].signals # row.signals

\* ------------------------------------------------------------------- C7
\* C7: two rows of the same (constructor, slice) pair have equal signals, for
\* each variant and each setting of do_cprofile and do_memory, other trials
\* having run in between.
C7_SamePairSameSignals ==
    \A t, u \in 1..Len(rows) :
        (/\ strategy_factories[FactoryOf(t)] = strategy_factories[FactoryOf(u)]
         /\ slices[SliceOf(t)][2] = slices[SliceOf(u)][2])
        => rows[t].signals = rows[u].signals

\* Every factory has two rows on the same slice, with signals emitted, and
\* for one of them the two timings differ.
C7_Witness ==
    /\ pc = "done"
    /\ \A f \in 1..Len(strategy_factories) : \E t, u \in 1..Len(rows) :
          /\ t < u /\ FactoryOf(t) = f /\ FactoryOf(u) = f
          /\ slices[SliceOf(t)][2] = slices[SliceOf(u)][2]
          /\ rows[t].signals > 0
    /\ \E t, u \in 1..Len(rows) :
          /\ t < u /\ FactoryOf(t) = FactoryOf(u)
          /\ slices[SliceOf(t)][2] = slices[SliceOf(u)][2]
          /\ rows[t].seconds # rows[u].seconds

\* ------------------------------------------------------------------ C11
\* The instance the constructor call builds with nothing else alive.
FreshInstance == Construct(ctor, <<>>)

\* C11: run_strategy calls generate_signals exactly once per tick of the
\* sequence, in sequence order, none skipped, repeated, reordered or batched,
\* and returns the sum of the lengths of the lists returned; for an empty
\* sequence it returns 0 without calling the strategy.
C11_OneCallPerTickInOrder ==
    /\ run_pc \in {"loop", "done"} =>
          /\ calls = SubSeq(run_ticks, 1, tick_i - 1)
          /\ Len(sigs) = Len(calls)
          /\ total_signals = TotalSignals(sigs)
    /\ run_pc = "raised" => calls = SubSeq(run_ticks, 1, tick_i)
    /\ run_pc = "done" =>
          /\ calls = run_ticks
          /\ run_result = <<TotalSignals(sigs)>>
          /\ instance_no = 1 =>
                run_result = <<RunStrategy(FreshInstance, run_ticks).total_signals>>
          /\ run_ticks = <<>> => calls = <<>> /\ run_result = <<0>>

\* run_strategy has returned from a sequence of both symbols on which some
\* calls returned a signal and some returned none.
C11_Witness ==
    /\ run_pc = "done"
    /\ Len(run_ticks) >= 3
    /\ {run_ticks[i].symbol : i \in 1..Len(run_ticks)} = Symbols
    /\ run_result # <<0>>
    /\ run_result # <<Len(run_ticks)>>

\* ------------------------------------------------------------------ C12
\* The fields of a ProfileRow.
RowFields == {"strategy", "n_ticks", "seconds", "signals", "peak_mib", "cprofile_top"}

\* Row t is the row of the t-th combination, slices outer, factories inner.
RowsOfCombinations(rs) ==
    \A t \in 1..Len(rs) :
        /\ DOMAIN rs[t] = RowFields
        /\ rs[t].strategy = strategy_factories[FactoryOf(t)].name
        /\ rs[t].n_ticks = slices[SliceOf(t)][1]

\* C12: profile_runtime_memory returns exactly one row per (constructor,
\* slice) combination, |strategy_factories| x |slices| rows, slices outer and
\* factories inner, each row carrying exactly the fields strategy, n_ticks,
\* seconds, signals, peak_mib and cprofile_top, with strategy and n_ticks the
\* name and the size of its combination.
C12_OneRowPerCombination ==
    /\ RowsOfCombinations(rows)
    /\ Len(rows) <= Len(strategy_factories) * Len(slices)
    /\ pc = "done" =>
          /\ Len(returned) = Len(strategy_factories) * Len(slices)
          /\ RowsOfCombinations(returned)

\* The rows were returned: several factories on several slices.
C12_Witness ==
    /\ pc = "done"
    /\ Len(returned) >= 6
    /\ returned[1].strategy # returned[2].strategy
    /\ returned[1].n_ticks = returned[2].n_ticks
    /\ returned[1].strategy = returned[4].strategy
    /\ returned[1].n_ticks # returned[4].n_ticks

\* ------------------------------------------------------------------ C13
\* Row t keeps what the first run of trial t recorded.
RowKeepsFirstRun(t) ==
    /\ rows[t].cprofile_top = IF do_cprofile THEN PstatsText ELSE None
    /\ \E i \in FirstRuns :
          /\ runs[i].trial = t
          /\ rows[t].seconds = runs[i].seconds
          /\ rows[t].signals = runs[i].signals

\* C13: with do_memory enabled and the memory sampling facility unavailable,
\* profile_runtime_memory raises no error and returns one row per combination,
\* each with peak_mib absent and with seconds, signals and cprofile_top as the
\* non-memory part of the trial recorded them.
C13_DegradesWithoutMemoryProfiler ==
    (do_memory /\ ~memory_profiler) =>
       /\ \A t \in 1..Len(rows) : rows[t].peak_mib = NoReading /\ RowKeepsFirstRun(t)
       /\ pc = "memory_run" => ~RunStrategy(heap[strat_mem].obj, slices[si][2]).raised
       /\ pc = "append" => row.peak_mib = NoReading
       /\ pc = "done" =>
             /\ returned = rows
             /\ Len(returned) = Len(strategy_factories) * Len(slices)

\* All rows were returned after memory steps that fell back to the timed run,
\* the first runs under cProfile.
C13_Witness ==
    /\ pc = "done"
    /\ do_memory /\ ~memory_profiler /\ do_cprofile
    /\ Len(returned) = Len(strategy_factories) * Len(slices)
    /\ \A t \in 1..Len(returned) :
          /\ returned[t].signals > 0
          /\ \E i \in 1..Len(runs) : runs[i].trial = t /\ runs[i].how = "memory_timer"

\* ------------------------------------------------------------------ C14
\* The divisor of the average that the call for the next tick would compute.
NextDivisor ==
    LET tick == run_ticks[tick_i]
    IN  CASE strat.kind = "naive" ->
                Len(Append(DictGet(strat.price_history, tick.symbol, <<>>), tick.price))
          [] strat.kind = "windowed" -> WindowedDivisor(WindowedUpdate(strat, tick), tick.symbol)
          [] strat.kind = "optimized" -> OptimizedDivisor(OptimizedUpdate(strat, tick), tick.symbol)

\* C14 as claimed: for every instance that construction accepted (naive,
\* windowed, optimized, whatever window size its constructor accepted), no
\* generate_signals call on a well-formed tick fails, and the divisor of the
\* average (history or buffer length after the push) is at least 1.
C14_GenerateSignalsNeverFails ==
    /\ run_pc # "raised"
    /\ (run_pc = "loop" /\ tick_i <= Len(run_ticks)) => NextDivisor >= 1

\* ------------------------------------------------------------------ C15
\* C15: constructing a WindowedMovingAverageStrategy with window_size <= 0
\* fails at once with the invalid-argument error and yields no instance (no
\* generate_signals call follows); with window_size >= 1 construction succeeds
\* with empty per-symbol buffers and running sums.
C15_WindowedConstructorChecksWindow ==
    (ctor.kind = "windowed" /\ run_pc # "construct") =>
       /\ ctor.window_size <= 0 =>
             /\ run_pc = "rejected"
             /\ strat = NoStrategy
             /\ calls = <<>>
       /\ ctor.window_size >= 1 =>
             /\ run_pc # "rejected"
             /\ strat.kind = "windowed"
             /\ strat.window_size = ctor.window_size
             /\ (calls = <<>> /\ instance_no = 1) =>
                   strat.buffers = EmptyDict /\ strat.running_sum = EmptyDict

\* The constructor has refused window_size 0 with ticks waiting to be run.
C15_Witness ==
    /\ ctor.kind = "windowed"
    /\ ctor.window_size = 0
    /\ run_pc = "rejected"
    /\ run_ticks # <<>>

\* ------------------------------------------------------------------ C16
\* The prices of the first i ticks of the run.
RunPrices(i) == [j \in 1..i |-> run_ticks[j].price]

\* A naive instance is run over strictly increasing prices of one symbol.
IncreasingRun ==
    /\ ctor.kind = "naive"
    /\ run_pc \in {"loop", "done"}
    /\ \A i \in 1..Len(run_ticks) :
          /\ run_ticks[i].symbol = run_ticks[1].symbol
          /\ i > 1 => run_ticks[i].price > run_ticks[i - 1].price

OneBuy(out) == Len(out) = 1 /\ out[1].side = "BUY"

\* C16 as claimed: a fresh naive strategy fed a strictly increasing price
\* sequence of a single symbol emits no signal on the first tick and exactly
\* one BUY signal on every later tick, never a SELL.
C16_NaiveBuysOnIncreasing ==
    IncreasingRun =>
       \A i \in 1..Len(sigs) : IF i = 1 THEN sigs[i] = <<>> ELSE OneBuy(sigs[i])

\* sum(prices) over the first i ticks did not round.
HistorySumExact(i) == FSum(RunPrices(i)) = ExactSum(RunPrices(i))

\* C16 amended: no signal on the first tick, and exactly one BUY signal on
\* every later tick on which the float sum of the history is exact.
C16_NaiveBuysOnIncreasingWhenExact ==
    IncreasingRun =>
       \A i \in 1..Len(sigs) :
           /\ i = 1 => sigs[i] = <<>>
           /\ (i > 1 /\ HistorySumExact(i)) => OneBuy(sigs[i])

\* Three increasing prices whose sums are exact, a BUY on the second and on
\* the third.
C16_Witness ==
    /\ IncreasingRun
    /\ Len(sigs) >= 3
    /\ HistorySumExact(2) /\ HistorySumExact(3)
    /\ sigs[1] = <<>> /\ OneBuy(sigs[2]) /\ OneBuy(sigs[3])

\* ------------------------------------------------------------------ C17
\* C17: two freshly constructed instances of the same variant with the same
\* parameters, fed the identical tick sequence, return identical signal lists
\* on every tick and end in identical internal state, for each variant.
C17_SameInputsSameOutputs ==
    instance_no = 2 =>
       /\ Len(sigs) <= Len(first.sigs)
       /\ \A i \in 1..Len(sigs) : sigs[i] = first.sigs[i]
       /\ run_pc # "raised"
       /\ run_pc = "done" =>
             /\ Len(sigs) = Len(first.sigs)
             /\ strat = first.self
             /\ run_result = first.returned

\* The second instance has finished a run over both symbols in which signals
\* were returned on some ticks and not on others.
C17_Witness ==
    /\ instance_no = 2
    /\ run_pc = "done"
    /\ strat.kind = "optimized"
    /\ {run_ticks[i].symbol : i \in 1..Len(run_ticks)} = Symbols
    /\ \E i, j \in 1..Len(sigs) : sigs[i] # <<>> /\ sigs[j] = <<>>

\* ------------------------------------------------------------------ C18
\* The step from (buffers, sums) to (buffers2, sums2) for tick is one enqueue
\* and one addition, with at most one dequeue and one subtraction, on the
\* tick's symbol: the new sum comes from the old sum, not from the buffer.
BoundedUpdate(buffers, sums, buffers2, sums2, tick) ==
    LET sym == tick.symbol
        appended == Append(DictGet(buffers, sym, <<>>), tick.price)
        added == FAdd(DictGet(sums, sym, 0), tick.price)
    IN  \/ buffers2[sym] = appended /\ sums2[sym] = added
        \/ buffers2[sym] = Tail(appended) /\ sums2[sym] = FSub(added, Head(appended))

\* The naive step: the history grows by the tick's price and the average is
\* the sum over the whole history.
WholeHistorySummed(history, history2, avg, tick) ==
    LET sym == tick.symbol
    IN  /\ history2[sym] = Append(DictGet(history, sym, <<>>), tick.price)
        /\ avg = FDiv(FSum(history2[sym]), Len(history2[sym]))

\* C18: each generate_signals call of the windowed and of the optimized
\* strategy does a bounded amount of work whatever the number of ticks seen:
\* one enqueue and at most one dequeue on the symbol's buffer, the running sum
\* updated by one addition and at most one subtraction and never recomputed
\* from the buffer; the naive strategy sums its whole history on every tick.
C18_BoundedWorkPerCall ==
    [][ LET tick == fed'[Len(fed')]
        IN  /\ BoundedUpdate(windowed.buffers, windowed.running_sum,
                             windowed'.buffers, windowed'.running_sum, tick)
            /\ BoundedUpdate(optimized.buffers, optimized.running_sums,
                             optimized'.buffers, optimized'.running_sums, tick)
            /\ WholeHistorySummed(naive.price_history, naive'.price_history,
                                  n_avgs'[Len(fed')], tick) ]_vars

\* A symbol's running sum differs from the float sum of its buffer (it was
\* carried over an eviction, not recomputed) while the naive history of that
\* symbol holds every tick seen, more than the window.
C18_Witness ==
    \E sym \in SeenSymbols :
        /\ windowed.running_sum[sym] # FSum(windowed.buffers[sym])
        /\ optimized.running_sums[sym] # FSum(optimized.buffers[sym])
        /\ Len(naive.price_history[sym]) > window_size
        /\ Len(naive.price_history[sym]) = Len(PricesOf(sym, Len(fed)))
        /\ Len(windowed.buffers[sym]) = window_size

\* ------------------------------------------------------------------ C19
\* The count a freshly constructed strategy of trial t's factory produces on
\* trial t's slice.
FreshCount(t) ==
    RunStrategy(Construct(strategy_factories[FactoryOf(t)], <<>>),
                slices[SliceOf(t)][2]).total_signals

\* C19 as claimed: every invocation of the runner made during a trial, the
\* signal-count re-run after memory sampling included, starts on a strategy
\* that has processed no tick, so the count _run_with_memory returns equals
\* the count a freshly constructed strategy produces on the same ticks.
C19_EveryRunStartsFresh ==
    \A i \in 1..Len(runs) :
        /\ runs[i].processed_before = 0
        /\ runs[i].how \in {"memory_rerun", "memory_timer"} =>
              runs[i].signals = FreshCount(runs[i].trial)

\* ------------------------------------------------------------------ C20
\* The lists a strategy returns, call by call, when fed ticks from state self.
RECURSIVE OutsOver(_, _)
OutsOver(self, ticks) ==
    IF ticks = <<>> THEN <<>>
    ELSE LET r == GenerateSignals(self, Head(ticks))
         IN  <<r.out>> \o OutsOver(r.self, Tail(ticks))

\* The entries of outs that belong to the ticks of sym.
RECURSIVE OutsFor(_, _, _)
OutsFor(outs, ticks, sym) ==
    IF outs = <<>> THEN <<>>
    ELSE (IF Head(ticks).symbol = sym THEN <<Head(outs)>> ELSE <<>>)
         \o OutsFor(Tail(outs), Tail(ticks), sym)

TicksOf(ticks, sym) == SelectSeq(ticks, LAMBDA t : t.symbol = sym)

\* What three instances returned for sym over ticks is what fresh instances
\* return when fed the ticks of sym alone.
SameAsAlone(nouts, wouts, oouts, ticks, sym) ==
    /\ OutsFor(nouts, ticks, sym) = OutsOver(NaiveMovingAverageStrategy, TicksOf(ticks, sym))
    /\ OutsFor(wouts, ticks, sym) =
          OutsOver(WindowedMovingAverageStrategy(window_size), TicksOf(ticks, sym))
    /\ OutsFor(oouts, ticks, sym) =
          OutsOver(OptimizedMovingAverageStrategy(window_size), TicksOf(ticks, sym))

\* The entry of sym in dict d is in d2 what it was in d.
EntryUnchanged(d, d2, sym) ==
    /\ (sym \in DOMAIN d2) = (sym \in DOMAIN d)
    /\ sym \in DOMAIN d => d2[sym] = d[sym]

\* C20: in all three variants a generate_signals call for a tick of one
\* symbol leaves the history, buffer, running sum and last emitted side of
\* every other symbol unchanged, and the signals emitted for the ticks of a
\* symbol in an interleaved sequence are those emitted when only that
\* symbol's ticks are fed in the same relative order.
\* (Checked on every step: the signals of the symbol just fed are compared
\* after the step; those of the other symbols and their ticks did not change.)
C20_PerSymbolIsolation ==
    [][ /\ SameAsAlone(n_outs', w_outs', o_outs', fed', fed'[Len(fed')].symbol)
        /\ \A sym \in Symbols \ {fed'[Len(fed')].symbol} :
              /\ OutsFor(n_outs', fed', sym) = OutsFor(n_outs, fed, sym)
              /\ OutsFor(w_outs', fed', sym) = OutsFor(w_outs, fed, sym)
              /\ OutsFor(o_outs', fed', sym) = OutsFor(o_outs, fed, sym)
              /\ EntryUnchanged(naive.price_history, naive'.price_history, sym)
              /\ EntryUnchanged(windowed.buffers, windowed'.buffers, sym)
              /\ EntryUnchanged(windowed.running_sum, windowed'.running_sum, sym)
              /\ EntryUnchanged(optimized.buffers, optimized'.buffers, sym)
              /\ EntryUnchanged(optimized.running_sums, optimized'.running_sums, sym)
              /\ EntryUnchanged(optimized.last_signal, optimized'.last_signal, sym) ]_vars

\* Ticks of the two symbols alternate, every instance has returned signals
\* for both, and the last sides emitted for the two symbols differ.
C20_Witness ==
    /\ Len(fed) >= 4
    /\ \A i \in 2..Len(fed) : fed[i].symbol # fed[i - 1].symbol
    /\ \A sym \in Symbols :
          /\ TotalSignals(OutsFor(n_outs, fed, sym)) >= 1
          /\ TotalSignals(OutsFor(w_outs, fed, sym)) >= 1
          /\ TotalSignals(OutsFor(o_outs, fed, sym)) >= 1
    /\ optimized.last_signal["X"] # optimized.last_signal["Y"]

\* ------------------------------------------------------------------ C21
\* C21 as claimed: for the slices built by make_slices and run by
\* profile_runtime_memory, the n_ticks recorded in each row equals the number
\* of ticks fed to the strategy in that trial, the length of the slice, for
\* every requested size and every length of the loaded tick sequence.
C21_RowSizeIsTicksFed ==
    \A t \in 1..Len(rows) :
        /\ rows[t].n_ticks = Len(slices[SliceOf(t)][2])
        /\ \E i \in FirstRuns :
              /\ runs[i].trial = t
              /\ rows[t].n_ticks = heap[runs[i].ref].processed

====
